---- MODULE Spec2Model ----
(***************************************************************************)
(* Model of package sqlt: a master/slave wrapper around sqlx connections.  *)
(* The modelled revision is the one with the heartBeat flag and StopBeat   *)
(* (src/sqlt.go, lines 887-1396).                                          *)
(*                                                                         *)
(* A connection is its index in db.sqlxdb: 0 is the master, 1..N-1 are the *)
(* slaves.  Go slices are 0-based, TLA+ sequences 1-based: db.activedb[i]  *)
(* is activedb[i+1] here.                                                  *)
(***************************************************************************)
EXTENDS Integers, Sequences, FiniteSets, TLC

\* Largest number of configured connections explored.
MaxN == 3

\* Longest sources string explored.
MaxSrc == 2

\* Largest value given to SetMaxRetry.
MaxRetry == 2

\* Bits of the selection counter in the wraparound model.  db.count is a
\* uint64; 2^4 and 2^64 leave the same remainders modulo 1, 2 and 3.
Width == 4

\* Largest number of connections in the wraparound model.
MaxL == 4

\* Number of Ping calls followed statement by statement.
MaxPasses == 2

\* Number of callers that may be inside DoHeartBeat / StopBeat at once.
MaxCallers == 2

VARIABLES
    N,          \* len(db.sqlxdb), fixed at construction
    activedb,   \* db.activedb
    inactivedb, \* db.inactivedb
    length,     \* db.length
    count,      \* db.count, kept modulo CountMod (see NextCount)
    stats,      \* db.stats: Connected and Error (TRUE = non-nil) per index
    heartBeat,  \* db.heartBeat
    beating,    \* the goroutine spawned by DoHeartBeat is alive
    stopBlocked,\* a StopBeat caller is parked on the send to db.stopBeat
    lastBeat,   \* db.lastBeat: 0 = never set, 1 and 2 = two successive stamps
    up,         \* environment: the connections whose Ping() answers now
    op,         \* observation: the operation that ran last
    ret,        \* observation: index it used / returned (NoRet if none)
    err,        \* observation: Ping returned a non-nil error
    pings,      \* observation: the pings the last Ping issued, in order
    hist,       \* observation: slave() results since activedb last changed
    stopBeat,   \* db.stopBeat: 0 = nil, k = the k-th channel made
    gor,        \* the goroutines DoHeartBeat has spawned, in spawn order
    cpc,        \* per caller: where it stands inside DoHeartBeat / StopBeat
    closed,     \* Close has closed the handles
    ctxPc,      \* the PingContext call in progress: who made it, or "idle"
    ctxDepth,   \* PingContext frames on that call's stack: 0 = none,
                \* 1 and 2 = an odd and an even number of them
    sources,    \* the sources argument of the openConnection call
    openPc,     \* where that call stands: "idle" when none is in progress
    openI,      \* its loop variable i
    opened,     \* the indices whose handle sqlx.Open has returned
    maxRetry,   \* the package variable maxRetry
    tried,      \* observation: the attempts of the last query, in order
    pass        \* per overlapping Ping pass: its position and its locals

vars == <<N, activedb, inactivedb, length, count, stats, heartBeat, beating,
          stopBlocked, lastBeat, up, op, ret, err, pings, hist,
          stopBeat, gor, cpc, closed, ctxPc, ctxDepth,
          sources, openPc, openI, opened, maxRetry, tried, pass>>

\* what only construction, the retrying reads and overlapping passes change
auxVars == <<sources, openPc, openI, opened, maxRetry, tried, pass>>

\* what only the statement-level heartbeat steps and Close change
callVars == <<cpc, closed>>

\* what only the PingContext steps change
ctxVars == <<ctxPc, ctxDepth>>

\* what the operations on the partition and the selection leave alone
sideVars == <<stopBeat, gor, cpc, closed, ctxPc, ctxDepth, auxVars>>

\* the Ping calls of a run that go through the two loops, each made once
PassIds == 1 .. MaxPasses

\* the locals of a Ping call that is not running
IdlePass == [pc |-> "idle", i |-> 0, val |-> 0, err |-> FALSE]

Callers == 1 .. MaxCallers

Conns == 0 .. (N - 1)

Range(s) == {s[k] : k \in 1 .. Len(s)}

NoRet == 0 - 1

----------------------------------------------------------------------------
(* Helpers on slices *)

\* append(s[:i], s[i+1:]...) for the 0-based position i
RemoveAt(s, i) == SubSeq(s, 1, i) \o SubSeq(s, i + 2, Len(s))

RECURSIVE Gcd(_, _)
Gcd(a, b) == IF b = 0 THEN a ELSE Gcd(b, a % b)

RECURSIVE LcmUpTo(_)
LcmUpTo(n) == IF n <= 1 THEN 1
              ELSE LET l == LcmUpTo(n - 1) IN (l * n) \div Gcd(l, n)

\* db.count is a uint64 that slave() only ever uses modulo length-1, with
\* length-1 in 1..MaxN-1.  The model keeps it modulo the least common
\* multiple of those divisors, which gives the same residues as the real
\* counter as long as the 64-bit value has not wrapped.
CountMod == LcmUpTo(MaxN - 1)

----------------------------------------------------------------------------
(* DB.Ping, the partition-updating part (sqlt.go 1013-1058) *)

\* The part of DB a pass works on, plus the local err and the ping log.
PassState == [activedb |-> activedb, inactivedb |-> inactivedb,
              length |-> length, stats |-> stats,
              err |-> FALSE, pings |-> <<>>, returned |-> FALSE]

\* faulty variant of LogPing: the result of the ping is not kept in err
LogPingErrLost(s, val, ok, phase) ==
    [s EXCEPT !.pings = Append(s.pings, [db |-> val, ok |-> ok, phase |-> phase])]

\* err = db.sqlxdb[val].Ping(), together with the record of the call
LogPing(s, val, ok, phase) ==
    [s EXCEPT !.err = ~ok,
              !.pings = Append(s.pings, [db |-> val, ok |-> ok, phase |-> phase])]

\* faulty variant of SoleActive: the guard of the last active connection is gone
SoleActiveNever(len) == len <= 0

\* if db.length <= 1 { return err }
SoleActive(len) == len <= 1

\* faulty variant of Demote: the index is dropped instead of moved to inactivedb
DemoteNoAppend(s, i, val) ==
    [s EXCEPT !.stats[val] = [Connected |-> FALSE, Error |-> TRUE],
              !.activedb = SubSeq(s.activedb, 1, i) \o
                           SubSeq(s.activedb, i + 2, Len(s.activedb)),
              !.length = s.length - 1]

\* faulty variant of Demote: the index is appended to inactivedb twice
DemoteAppendTwice(s, i, val) ==
    [s EXCEPT !.stats[val] = [Connected |-> FALSE, Error |-> TRUE],
              !.activedb = SubSeq(s.activedb, 1, i) \o
                           SubSeq(s.activedb, i + 2, Len(s.activedb)),
              !.inactivedb = s.inactivedb \o <<val, val>>,
              !.length = s.length - 1]

\* faulty variant of Demote: the status record is not written
DemoteKeepsStatus(s, i, val) ==
    [s EXCEPT !.activedb = RemoveAt(s.activedb, i),
              !.inactivedb = Append(s.inactivedb, val),
              !.length = s.length - 1]

\* failed ping of activedb[i], not the last active one: lines 1024-1030
Demote(s, i, val) ==
    [s EXCEPT !.stats[val] = [Connected |-> FALSE, Error |-> TRUE],
              !.activedb = RemoveAt(s.activedb, i),
              !.inactivedb = Append(s.inactivedb, val),
              !.length = s.length - 1]

\* successful ping of activedb[i]: lines 1032-1034
MarkAlive(s, val) ==
    [s EXCEPT !.stats[val] = [Connected |-> TRUE, Error |-> FALSE]]

\* failed ping of inactivedb[i]: lines 1044-1045
MarkDown(s, val) ==
    [s EXCEPT !.stats[val] = [Connected |-> FALSE, Error |-> TRUE]]

\* faulty variant of Promote: the index is put at the head of activedb
PromoteAtHead(s, i, val) ==
    [s EXCEPT !.stats[val] = [Connected |-> TRUE, Error |-> FALSE],
              !.inactivedb = RemoveAt(s.inactivedb, i),
              !.activedb = <<val>> \o s.activedb,
              !.length = s.length + 1]

\* faulty variant of Promote: db.length++ is missing
PromoteNoCount(s, i, val) ==
    [s EXCEPT !.stats[val] = [Connected |-> TRUE, Error |-> FALSE],
              !.inactivedb = SubSeq(s.inactivedb, 1, i) \o
                             SubSeq(s.inactivedb, i + 2, Len(s.inactivedb)),
              !.activedb = Append(s.activedb, val)]

\* successful ping of inactivedb[i]: lines 1047-1055
Promote(s, i, val) ==
    [s EXCEPT !.stats[val] = [Connected |-> TRUE, Error |-> FALSE],
              !.inactivedb = RemoveAt(s.inactivedb, i),
              !.activedb = Append(s.activedb, val),
              !.length = s.length + 1]

\* for i := 0; i < len(db.activedb); i++ { ... }; on a removal the code
\* does i-- so that the next iteration looks at the same position again.
RECURSIVE ScanActive(_, _, _)
ScanActive(i, s, ok) ==
    IF i >= Len(s.activedb) THEN s
    ELSE LET val == s.activedb[i + 1]
             p   == LogPing(s, val, val \in ok, "active")
         IN IF val \notin ok
            THEN IF SoleActive(p.length)
                 THEN [p EXCEPT !.returned = TRUE]
                 ELSE ScanActive(i, Demote(p, i, val), ok)
            ELSE ScanActive(i + 1, MarkAlive(p, val), ok)

\* for i := 0; i < len(db.inactivedb); i++ { ... }
RECURSIVE ScanInactive(_, _, _)
ScanInactive(i, s, ok) ==
    IF i >= Len(s.inactivedb) THEN s
    ELSE LET val == s.inactivedb[i + 1]
             p   == LogPing(s, val, val \in ok, "inactive")
         IN IF val \notin ok
            THEN ScanInactive(i + 1, MarkDown(p, val), ok)
            ELSE ScanInactive(i, Promote(p, i, val), ok)

\* One pass: okA are the connections answering during the first loop, okI
\* those answering during the second one.
Pass(s, okA, okI) ==
    LET a == ScanActive(0, s, okA)
    IN IF a.returned THEN a ELSE ScanInactive(0, a, okI)

\* if !db.heartBeat { for _, val := range db.sqlxdb { ... } } (1003-1011):
\* ping in configured order, stop at the first failure, change nothing.
RECURSIVE PlainPing(_, _, _)
PlainPing(i, s, ok) ==
    IF i >= N THEN s
    ELSE LET p == LogPing(s, i, i \in ok, "plain")
         IN IF i \notin ok THEN [p EXCEPT !.returned = TRUE]
            ELSE PlainPing(i + 1, p, ok)

\* faulty variant of PingResult: the two loops run whatever the flag is
PingResultAlwaysPass(okA, okI) == Pass(PassState, okA, okI)

\* DB.Ping as a whole
PingResult(okA, okI) ==
    IF ~heartBeat THEN PlainPing(0, PassState, okA)
    ELSE Pass(PassState, okA, okI)

\* The effect of one call of db.Ping() on the DB and on the observations.
\* The environment may change between the two loops: up answers the first
\* loop, mid the second.
ApplyPing(r) ==
    /\ activedb' = r.activedb
    /\ inactivedb' = r.inactivedb
    /\ length' = r.length
    /\ stats' = r.stats
    /\ pings' = r.pings
    /\ hist' = IF r.activedb = activedb THEN hist ELSE <<>>

DoPing(mid) ==
    LET r == PingResult(up, mid)
    IN /\ ApplyPing(r)
       /\ err' = r.err
       /\ up' = mid
       /\ op' = "Ping"
       /\ ret' = NoRet

----------------------------------------------------------------------------
(* DB.slave (sqlt.go 1357-1367) and DB.Master (sqlt.go 1117-1119) *)

\* faulty variant of NextCount: the counter is read but not incremented
NextCountStuck(c) == c

\* atomic.AddUint64(&db.count, 1)
NextCount(c) == (c + 1) % CountMod

\* faulty variant of SlaveIndex: the degenerate case returns the only active index
SlaveIndexFirstActive(act, len, c) ==
    IF len <= 1 THEN act[1]
    ELSE act[(1 + (c % (len - 1))) + 1]

\* the value slave() returns for the already incremented counter c
SlaveIndex(act, len, c) ==
    IF len <= 1 THEN 0
    ELSE act[(1 + (c % (len - 1))) + 1]

\* faulty variant of Master: the first active index instead of index 0
MasterFirstActive == activedb[1]

\* db.sqlxdb[0]
Master == 0

KeepLast(s, n) == IF Len(s) <= n THEN s ELSE SubSeq(s, Len(s) - n + 1, Len(s))

----------------------------------------------------------------------------
Init ==
    /\ N \in 1 .. MaxN
    /\ activedb = [k \in 1 .. N |-> k - 1]
    /\ inactivedb = <<>>
    /\ length = N
    /\ count = 0
    /\ stats = [i \in 0 .. (N - 1) |-> [Connected |-> TRUE, Error |-> FALSE]]
    /\ heartBeat = FALSE
    /\ beating = FALSE
    /\ stopBlocked = FALSE
    /\ lastBeat = 0
    /\ up = 0 .. (N - 1)
    /\ op = "none"
    /\ ret = NoRet
    /\ err = FALSE
    /\ pings = <<>>
    /\ hist = <<>>
    /\ stopBeat = 0
    /\ gor = <<>>
    /\ cpc = [c \in Callers |-> [pc |-> "idle", ch |-> 0]]
    /\ closed = FALSE
    /\ ctxPc = "idle"
    /\ ctxDepth = 0
    /\ sources = [k \in 1 .. (2 * N - 1) |-> IF k % 2 = 1 THEN "a" ELSE ";"]
    /\ openPc = "idle"
    /\ openI = N
    /\ opened = 0 .. (N - 1)
    /\ maxRetry = 1
    /\ tried = <<>>
    /\ pass = [p \in PassIds |-> IdlePass]

Quiet == /\ op' = "none" /\ ret' = NoRet /\ err' = FALSE /\ pings' = <<>>

\* Environment: servers go down and come back.
SetHealth ==
    /\ \E S \in SUBSET Conns : S # up /\ up' = S
    /\ Quiet
    /\ UNCHANGED <<N, activedb, inactivedb, length, count, stats, heartBeat,
                   beating, stopBlocked, lastBeat, hist, sideVars>>

\* the goroutines that have not returned
Live(g) == {i \in DOMAIN g : g[i].pc # "done"}

\* the goroutines blocked in the select with their stop case on channel ch
Receivers(g, ch) == {i \in DOMAIN g : g[i].pc = "select" /\ g[i].ch = ch}

\* faulty variant of ShouldSpawn: every call spawns
ShouldSpawnAlways(hb) == TRUE

\* if !db.heartBeat { ... go func() ... } (sqlt.go 973)
ShouldSpawn(hb) == ~hb

\* faulty variant of Stopped: the stop case does not return
StoppedNot(g, i) == g

\* case <-db.stopBeat: return (sqlt.go 982-983)
Stopped(g, i) == [g EXCEPT ![i].pc = "done"]

\* DB.DoHeartBeat (sqlt.go 972-989), run without interleaving: ret is 1 if
\* the call spawned a goroutine, 0 if not.  The goroutine is in its select,
\* listening on the channel just made.
DoHeartBeat ==
    /\ IF ShouldSpawn(heartBeat)
       THEN /\ stopBeat' = stopBeat + 1
            /\ gor' = Append(gor, [pc |-> "select", ch |-> stopBeat + 1])
            /\ beating' = TRUE
            /\ ret' = 1
       ELSE /\ UNCHANGED <<stopBeat, gor, beating>>
            /\ ret' = 0
    /\ heartBeat' = TRUE
    /\ op' = "DoHeartBeat"
    /\ err' = FALSE
    /\ pings' = <<>>
    /\ UNCHANGED <<N, activedb, inactivedb, length, count, stats,
                   stopBlocked, lastBeat, up, hist, callVars, ctxVars,
                   auxVars>>

\* DB.StopBeat (sqlt.go 992-997), run without interleaving: the send on the
\* unbuffered channel is taken by the goroutine, which returns; with no
\* goroutine left the caller stays parked on the send.  ret is 1 if the call
\* returned after its send was received, 0 if it returned without sending.
StopBeat ==
    /\ ~stopBlocked
    /\ IF ~heartBeat
       THEN /\ UNCHANGED <<beating, stopBlocked, gor>>
            /\ op' = "StopBeat" /\ ret' = 0
       ELSE IF beating
       THEN /\ \E g \in Receivers(gor, stopBeat) :
                  /\ gor' = Stopped(gor, g)
                  /\ beating' = (Live(gor') # {})
            /\ UNCHANGED stopBlocked
            /\ op' = "StopBeat" /\ ret' = 1
       ELSE /\ stopBlocked' = TRUE
            /\ UNCHANGED <<beating, gor>>
            /\ op' = "none" /\ ret' = NoRet
    /\ err' = FALSE
    /\ pings' = <<>>
    /\ UNCHANGED <<N, activedb, inactivedb, length, count, stats, heartBeat,
                   lastBeat, up, hist, stopBeat, callVars, ctxVars,
                   auxVars>>

\* case <-ticker.C: db.Ping(); db.lastBeat = time.Now()... (979-981)
Tick ==
    /\ beating
    /\ \E mid \in SUBSET Conns : DoPing(mid)
    /\ lastBeat' = (IF lastBeat = 1 THEN 2 ELSE 1)
    /\ UNCHANGED <<N, count, heartBeat, beating, stopBlocked, sideVars>>

\* a caller's db.Ping() (sqlt.go 1000-1059)
Ping ==
    /\ \E mid \in SUBSET Conns : DoPing(mid)
    /\ UNCHANGED <<N, count, heartBeat, beating, stopBlocked, lastBeat,
                   sideVars>>

\* DB.GetStatus (sqlt.go 959-969): it probes only while db.heartBeat is
\* false, drops the error of the probe and returns db.stats with a nil error.
GetStatus ==
    /\ IF ~heartBeat
       THEN ApplyPing(PingResult(up, up))
       ELSE /\ UNCHANGED <<activedb, inactivedb, length, stats, hist>>
            /\ pings' = <<>>
    /\ op' = "GetStatus"
    /\ ret' = NoRet
    /\ err' = FALSE
    /\ UNCHANGED <<N, count, heartBeat, beating, stopBlocked, lastBeat, up,
                   sideVars>>

\* Any read-path operation: Query, Select, Get, Slave, Stmt.Query ... all
\* of them do db.sqlxdb[db.slave()] (sqlt.go 1112-1143, 1156-1169, 1241).
Read ==
    /\ count' = (IF length <= 1 THEN count ELSE NextCount(count))
    /\ ret' = SlaveIndex(activedb, length, count')
    /\ hist' = KeepLast(Append(hist, ret'), MaxN - 1)
    /\ op' = "slave"
    /\ err' = FALSE
    /\ pings' = <<>>
    /\ UNCHANGED <<N, activedb, inactivedb, length, stats, heartBeat,
                   beating, stopBlocked, lastBeat, up, sideVars>>

\* Any write-path or primary-affinity operation: Exec, MustExec, NamedExec,
\* Begin, Beginx, MustBegin, Master, SelectMaster, GetMaster, Stmt.Exec,
\* *Master: all of them use index 0 (sqlt.go 1117-1198, 1236-1355).
MasterOp ==
    /\ ret' = Master
    /\ op' = "master"
    /\ err' = FALSE
    /\ pings' = <<>>
    /\ UNCHANGED <<N, activedb, inactivedb, length, count, stats, heartBeat,
                   beating, stopBlocked, lastBeat, up, hist, sideVars>>

Next ==
    \/ SetHealth
    \/ DoHeartBeat
    \/ StopBeat
    \/ Tick
    \/ Ping
    \/ GetStatus
    \/ Read
    \/ MasterOp

Spec == Init /\ [][Next]_vars

\* A Tick step as it shows on db.lastBeat: Tick is the only action that
\* writes lastBeat and every Tick stores a new stamp, so under Next the
\* steps that satisfy TickStep are exactly the Tick steps.
TickStep == beating /\ lastBeat' = (IF lastBeat = 1 THEN 2 ELSE 1)

\* The ticker fires every two seconds, so a live goroutine handles a tick
\* again and again (sqlt.go 977-985); callers keep issuing reads.
LiveSpec == Init /\ [][Next]_vars /\ WF_lastBeat(TickStep) /\ WF_vars(Read)

----------------------------------------------------------------------------
(* DoHeartBeat, StopBeat and the heartbeat goroutine statement by statement, *)
(* with MaxCallers callers and the goroutines interleaved (sqlt.go 972-997), *)
(* and Close (sqlt.go 1211-1219).  db.heartBeat and db.stopBeat are read and *)
(* written without synchronisation.                                          *)

\* what the statements of DoHeartBeat and StopBeat leave alone
dbVars == <<N, activedb, inactivedb, length, count, stats, lastBeat, up, hist,
            stopBlocked, closed, ctxPc, ctxDepth, auxVars>>

obsVars == <<op, ret, err, pings>>

At(c, p) == cpc[c].pc = p

Goto(c, p) == cpc' = [cpc EXCEPT ![c].pc = p]

\* a closed handle fails every ping ("sql: database is closed")
Answering == IF closed THEN {} ELSE up

\* a caller enters DoHeartBeat
HbCall(c) ==
    /\ At(c, "idle")
    /\ Goto(c, "hbTest")
    /\ UNCHANGED <<dbVars, obsVars, heartBeat, beating, stopBeat, gor>>

\* if !db.heartBeat {
HbTest(c) ==
    /\ At(c, "hbTest")
    /\ Goto(c, IF ShouldSpawn(heartBeat) THEN "hbMake" ELSE "hbSet")
    /\ UNCHANGED <<dbVars, obsVars, heartBeat, beating, stopBeat, gor>>

\* ticker := time.NewTicker(...); db.stopBeat = make(chan bool)
HbMake(c) ==
    /\ At(c, "hbMake")
    /\ stopBeat' = stopBeat + 1
    /\ cpc' = [cpc EXCEPT ![c] = [pc |-> "hbGo", ch |-> stopBeat + 1]]
    /\ UNCHANGED <<dbVars, obsVars, heartBeat, beating, gor>>

\* go func() { for { select { ... } } }(): the new goroutine is about to
\* evaluate its select; the channel this caller stored is visible to it.
HbGo(c) ==
    /\ At(c, "hbGo")
    /\ gor' = Append(gor, [pc |-> "loop", ch |-> cpc[c].ch])
    /\ beating' = TRUE
    /\ Goto(c, "hbSet")
    /\ UNCHANGED <<dbVars, obsVars, heartBeat, stopBeat>>

\* db.heartBeat = true, and the call returns
HbSet(c) ==
    /\ At(c, "hbSet")
    /\ heartBeat' = TRUE
    /\ cpc' = [cpc EXCEPT ![c] = [pc |-> "idle", ch |-> 0]]
    /\ op' = "DoHeartBeat"
    /\ ret' = (IF cpc[c].ch # 0 THEN 1 ELSE 0)
    /\ err' = FALSE
    /\ pings' = <<>>
    /\ UNCHANGED <<dbVars, beating, stopBeat, gor>>

\* a caller enters StopBeat
SbCall(c) ==
    /\ At(c, "idle")
    /\ Goto(c, "sbTest")
    /\ UNCHANGED <<dbVars, obsVars, heartBeat, beating, stopBeat, gor>>

\* if !db.heartBeat { return }; otherwise evaluate db.stopBeat for the send.
\* The read races with the writes in DoHeartBeat: it yields one of the
\* channels stored so far.
SbTest(c) ==
    /\ At(c, "sbTest")
    /\ IF ~heartBeat
       THEN /\ Goto(c, "idle")
            /\ op' = "StopBeat" /\ ret' = 0 /\ err' = FALSE /\ pings' = <<>>
       ELSE /\ \E ch \in 1 .. stopBeat :
                  cpc' = [cpc EXCEPT ![c] = [pc |-> "sbSend", ch |-> ch]]
            /\ UNCHANGED obsVars
    /\ UNCHANGED <<dbVars, heartBeat, beating, stopBeat, gor>>

\* the goroutine enters the select: it evaluates db.stopBeat, a read that
\* races with DoHeartBeat's writes and yields the channel it saw last or
\* one stored since.
GorSelect(g) ==
    /\ g \in DOMAIN gor
    /\ gor[g].pc = "loop"
    /\ \E ch \in gor[g].ch .. stopBeat :
          gor' = [gor EXCEPT ![g] = [pc |-> "select", ch |-> ch]]
    /\ UNCHANGED <<dbVars, obsVars, heartBeat, beating, stopBeat, cpc>>

\* case <-ticker.C is chosen
GorTick(g) ==
    /\ g \in DOMAIN gor
    /\ gor[g].pc = "select"
    /\ gor' = [gor EXCEPT ![g].pc = "tick"]
    /\ UNCHANGED <<dbVars, obsVars, heartBeat, beating, stopBeat, cpc>>

\* db.Ping(); db.lastBeat = time.Now()...
GorPing(g) ==
    /\ g \in DOMAIN gor
    /\ gor[g].pc = "tick"
    /\ LET r == PingResult(Answering, Answering)
       IN ApplyPing(r) /\ err' = r.err
    /\ op' = "Ping"
    /\ ret' = NoRet
    /\ lastBeat' = (IF lastBeat = 1 THEN 2 ELSE 1)
    /\ gor' = [gor EXCEPT ![g].pc = "loop"]
    /\ UNCHANGED <<N, count, up, stopBlocked, closed, ctxVars, heartBeat,
                   beating, stopBeat, cpc, auxVars>>

\* case <-db.stopBeat: the send of caller c and the receive of goroutine g
\* meet on the same channel; StopBeat returns and the goroutine returns.
GorStop(g, c) ==
    /\ g \in DOMAIN gor
    /\ gor[g].pc = "select"
    /\ At(c, "sbSend")
    /\ gor[g].ch = cpc[c].ch
    /\ gor' = Stopped(gor, g)
    /\ beating' = (Live(gor') # {})
    /\ cpc' = [cpc EXCEPT ![c] = [pc |-> "idle", ch |-> 0]]
    /\ op' = "StopBeat" /\ ret' = 1 /\ err' = FALSE /\ pings' = <<>>
    /\ UNCHANGED <<dbVars, heartBeat, stopBeat>>

\* DB.Close (sqlt.go 1211-1219): closes every handle, touches nothing else
Close(c) ==
    /\ At(c, "idle")
    /\ closed' = TRUE
    /\ op' = "Close" /\ ret' = NoRet /\ err' = FALSE /\ pings' = <<>>
    /\ UNCHANGED <<N, activedb, inactivedb, length, count, stats, lastBeat,
                   up, hist, stopBlocked, ctxVars, heartBeat, beating,
                   stopBeat, gor, cpc, auxVars>>

\* every caller that finds db.heartBeat false spawns one goroutine, so the
\* goroutines are numbered like the callers
BeatNext ==
    \/ \E c \in Callers : HbCall(c)
    \/ \E c \in Callers : HbTest(c)
    \/ \E c \in Callers : HbMake(c)
    \/ \E c \in Callers : HbGo(c)
    \/ \E c \in Callers : HbSet(c)
    \/ \E c \in Callers : SbCall(c)
    \/ \E c \in Callers : SbTest(c)
    \/ \E c \in Callers : Close(c)
    \/ \E g \in Callers : GorSelect(g)
    \/ \E g \in Callers : GorTick(g)
    \/ \E g \in Callers : GorPing(g)
    \/ \E g \in Callers, c \in Callers : GorStop(g, c)

BeatSpec == Init /\ [][BeatNext]_vars

\* what the return of db.Ping() in the goroutine does to gor: every ping
\* call returns, so a pass that was started is finished
GorPingStep(g) ==
    /\ g \in DOMAIN gor
    /\ gor[g].pc = "tick"
    /\ gor' = [gor EXCEPT ![g].pc = "loop"]

\* BeatSpec with the scheduling the runtime gives: a goroutine that can run
\* does run (the pass returns, the loop reaches its select again), a caller
\* past the entry of StopBeat reaches its send, and a select that finds the
\* stop case ready again and again takes it in the end (the runtime picks
\* among the ready cases at random).
BeatLiveSpec ==
    /\ Init
    /\ [][BeatNext]_vars
    /\ \A g \in Callers : WF_gor(GorPingStep(g))
    /\ \A g \in Callers : WF_vars(GorSelect(g))
    /\ \A c \in Callers : WF_vars(SbTest(c))
    /\ \A g \in Callers, c \in Callers : SF_vars(GorStop(g, c))

----------------------------------------------------------------------------
(* The context variant: OpenWithContext and DB.PingContext                   *)
(* (sqlt_context.go 14-128).                                                 *)

\* the DB as openContextConnection has built it: db.heartBeat is false and
\* nothing has run on it
Fresh == ~heartBeat /\ gor = <<>> /\ op = "none"

InPingContext == ctxPc \in {"open", "ping"}

\* openContextConnection up to its last statement, err = db.PingContext(ctx)
\* (sqlt_context.go 14-65); nobody else holds the DB before it returns.
OpenWithContext ==
    /\ ctxPc = "idle" /\ Fresh
    /\ ctxPc' = "open"
    /\ ctxDepth' = 1
    /\ UNCHANGED <<N, activedb, inactivedb, length, count, stats, heartBeat,
                   beating, stopBlocked, lastBeat, up, hist, obsVars,
                   stopBeat, gor, callVars, auxVars>>

\* a caller's db.PingContext(ctx)
PingContextCall ==
    /\ ctxPc = "idle"
    /\ ctxPc' = "ping"
    /\ ctxDepth' = 1
    /\ UNCHANGED <<N, activedb, inactivedb, length, count, stats, heartBeat,
                   beating, stopBlocked, lastBeat, up, hist, obsVars,
                   stopBeat, gor, callVars, auxVars>>

\* The body of the innermost PingContext frame (sqlt_context.go 75-128):
\* if !db.heartBeat { return db.PingContext(ctx) } pushes one more frame
\* and pings nothing (the Go runtime aborts the program once the stack
\* reaches its limit, which is not modelled: the call does not return
\* either way); otherwise the two loops run as in Ping and every frame
\* returns.
PingContextStep ==
    /\ InPingContext
    /\ IF ~heartBeat
       THEN /\ ctxDepth' = (IF ctxDepth = 1 THEN 2 ELSE 1)
            /\ ctxPc' = ctxPc
            /\ UNCHANGED <<activedb, inactivedb, length, stats, hist, up,
                           obsVars>>
       ELSE /\ \E mid \in SUBSET Conns :
                  LET r == Pass(PassState, up, mid)
                  IN ApplyPing(r) /\ err' = r.err /\ up' = mid
            /\ op' = "PingContext"
            /\ ret' = NoRet
            /\ ctxPc' = "idle"
            /\ ctxDepth' = 0
    /\ UNCHANGED <<N, count, heartBeat, beating, stopBlocked, lastBeat,
                   stopBeat, gor, callVars, auxVars>>

\* DoHeartBeat by a caller that holds the DB
CtxDoHeartBeat == ctxPc # "open" /\ DoHeartBeat

CtxNext ==
    \/ SetHealth
    \/ OpenWithContext
    \/ PingContextCall
    \/ PingContextStep
    \/ CtxDoHeartBeat

\* A PingContextStep as it shows on the call stack: every such step changes
\* ctxPc or ctxDepth, and no other action does while a call is in progress.
CtxRun ==
    /\ InPingContext
    /\ \E p \in {"idle", "open", "ping"}, d \in 0 .. 2 :
          /\ <<p, d>> # <<ctxPc, ctxDepth>>
          /\ ctxPc' = p
          /\ ctxDepth' = d

\* The goroutine that is inside PingContext keeps running.
CtxSpec == Init /\ [][CtxNext]_vars /\ WF_ctxVars(CtxRun)

----------------------------------------------------------------------------
(* Construction, statement by statement (openConnection, sqlt.go 55-112, and *)
(* the same code in sqlt_context.go 14-67), SetMaxRetry (sqlt.go 607-609)    *)
(* and the retrying reads (sqlt.go 272-365).  In this revision Ping is the   *)
(* partition-updating pass whatever the heartbeat flag is (sqlt.go 153-203). *)

\* A sources string: ";" is the separator, "a" any other character.
Strings == UNION {[1 .. n -> {"a", ";"}] : n \in 0 .. MaxSrc}

\* strings.Split(s, ";"): the pieces between the separators; a string
\* without separator, the empty one included, is one piece.
RECURSIVE Split(_)
Split(s) ==
    IF \A k \in 1 .. Len(s) : s[k] # ";" THEN <<s>>
    ELSE LET k == CHOOSE j \in 1 .. Len(s) :
                      s[j] = ";" /\ \A h \in 1 .. (j - 1) : s[h] # ";"
         IN <<SubSeq(s, 1, k - 1)>> \o Split(SubSeq(s, k + 1, Len(s)))

\* the process before any Open call: no DB, maxRetry has its zero value
OpenInit ==
    /\ N = 0
    /\ activedb = <<>>
    /\ inactivedb = <<>>
    /\ length = 0
    /\ count = 0
    /\ stats = <<>>
    /\ heartBeat = FALSE
    /\ beating = FALSE
    /\ stopBlocked = FALSE
    /\ lastBeat = 0
    /\ up = {}
    /\ op = "none"
    /\ ret = NoRet
    /\ err = FALSE
    /\ pings = <<>>
    /\ hist = <<>>
    /\ stopBeat = 0
    /\ gor = <<>>
    /\ cpc = [c \in Callers |-> [pc |-> "idle", ch |-> 0]]
    /\ closed = FALSE
    /\ ctxPc = "idle"
    /\ ctxDepth = 0
    /\ sources = <<>>
    /\ openPc = "idle"
    /\ openI = 0
    /\ opened = {}
    /\ maxRetry = 0
    /\ tried = <<>>
    /\ pass = [p \in PassIds |-> IdlePass]

\* what construction and the queries leave alone
hbVars == <<heartBeat, beating, stopBlocked, lastBeat, stopBeat, gor, cpc,
            closed, ctxPc, ctxDepth, pass>>

\* openConnection has returned a DB and nothing is being built
Built == openPc = "idle" /\ N >= 1 /\ opened = Conns

\* openConnection up to the loop (sqlt.go 55-71): split the sources, reject
\* an empty list, allocate the DB.  ret is 1 if a DB is returned, 0 if nil.
OpenCall ==
    /\ openPc = "idle"
    /\ \E src \in Strings :
          LET connsLength == Len(Split(src))
          IN /\ sources' = src
             /\ IF connsLength < 1
                THEN /\ op' = "Open" /\ ret' = 0 /\ err' = TRUE
                     /\ UNCHANGED <<N, activedb, inactivedb, length, count,
                                    stats, up, hist, openPc, openI, opened>>
                ELSE /\ N' = connsLength
                     /\ length' = connsLength
                     /\ activedb' = <<>>
                     /\ inactivedb' = <<>>
                     /\ count' = 0
                     /\ stats' = [i \in 0 .. (connsLength - 1) |->
                                    [Connected |-> FALSE, Error |-> FALSE]]
                     /\ up' = {}
                     /\ hist' = <<>>
                     /\ opened' = {}
                     /\ openI' = 0
                     /\ openPc' = "loop"
                     /\ op' = "none" /\ ret' = NoRet /\ err' = FALSE
    /\ pings' = <<>>
    /\ UNCHANGED <<maxRetry, tried, hbVars>>

\* one iteration of for i := range conns (sqlt.go 73-98): sqlx.Open of
\* conns[i] succeeds or fails; on a failure the function returns nil and
\* the error.
OpenHandle ==
    /\ openPc = "loop"
    /\ \E ok \in BOOLEAN :
          IF ok
          THEN /\ opened' = opened \cup {openI}
               /\ stats' = [stats EXCEPT ![openI].Connected = TRUE]
               /\ activedb' = Append(activedb, openI)
               /\ openI' = openI + 1
               /\ openPc' = (IF openI + 1 < N THEN "loop" ELSE "ping")
               /\ UNCHANGED <<inactivedb, op, ret, err>>
          ELSE /\ inactivedb' = Append(inactivedb, openI)
               /\ openPc' = "idle"
               /\ op' = "Open" /\ ret' = 0 /\ err' = TRUE
               /\ UNCHANGED <<opened, stats, activedb, openI>>
    /\ UNCHANGED <<N, length, count, up, hist, pings, sources, maxRetry,
                   tried, hbVars>>

\* faulty variant of DefaultRetry: the package variable is left as it is
DefaultRetryKept == maxRetry

\* maxRetry = 1 (sqlt.go 110)
DefaultRetry == 1

\* err = db.Ping(); maxRetry = 1; return db, err (sqlt.go 106-111)
OpenPing ==
    /\ openPc = "ping"
    /\ \E okA \in SUBSET Conns, okI \in SUBSET Conns :
          LET r == Pass(PassState, okA, okI)
          IN ApplyPing(r) /\ err' = r.err /\ up' = okI
    /\ maxRetry' = DefaultRetry
    /\ openPc' = "idle"
    /\ op' = "Open"
    /\ ret' = 1
    /\ UNCHANGED <<N, count, sources, openI, opened, tried, hbVars>>

\* An Open or OpenWithName call for another DB of the process that gets
\* past its loop (sqlt.go 106-111): of what this DB can see it writes the
\* package variable maxRetry only.  err is the result of the other DB's Ping.
OpenOther ==
    /\ maxRetry' = DefaultRetry
    /\ op' = "OpenOther"
    /\ ret' = 1
    /\ \E e \in BOOLEAN : err' = e
    /\ pings' = <<>>
    /\ UNCHANGED <<N, activedb, inactivedb, length, count, stats, up, hist,
                   sources, openPc, openI, opened, tried, hbVars>>

\* SetMaxRetry (sqlt.go 607-609): max is an int, negative values included
SetMaxRetry ==
    /\ \E max \in (0 - 1) .. MaxRetry : maxRetry' = max
    /\ op' = "SetMaxRetry" /\ ret' = NoRet /\ err' = FALSE /\ pings' = <<>>
    /\ UNCHANGED <<N, activedb, inactivedb, length, count, stats, up, hist,
                   sources, openPc, openI, opened, tried, hbVars>>

\* faulty variant of SlaveCount: slave() is not called again
SlaveCountStuck(c) == c

\* the counter after one more slave() call
SlaveCount(c) == IF length <= 1 THEN c ELSE NextCount(c)

\* faulty variant of RetryLimit: one retry too many
RetryLimitOver(max) == max + 1

\* for i := 0; i < maxRetry; i++
RetryLimit(max) == max

\* One attempt: db.sqlxdb[db.slave()].Query(...), after c slave() calls.
Attempt(c, ok) == [db |-> SlaveIndex(activedb, length, SlaveCount(c)), ok |-> ok]

\* The retry loop of a Persistent* read (sqlt.go 276-281): outs[k] tells
\* whether the k-th attempt of the call succeeds.  A successful retry
\* returns its own result; after the loop the function returns the r, err
\* of the first attempt.
RECURSIVE Retry(_, _, _, _)
Retry(i, c, log, outs) ==
    IF i >= RetryLimit(maxRetry)
    THEN [tried |-> log, count |-> c, ok |-> FALSE, from |-> 1]
    ELSE LET a  == Attempt(c, outs[Len(log) + 1])
             l2 == Append(log, a)
         IN IF a.ok
            THEN [tried |-> l2, count |-> SlaveCount(c), ok |-> TRUE,
                  from |-> Len(l2)]
            ELSE Retry(i + 1, SlaveCount(c), l2, outs)

\* PersistentQuery, PersistentQueryx, PersistentSelect, PersistentGet and
\* their Stmt forms (sqlt.go 272-284, 298-310, 333-365, 423-435): ret is the
\* connection whose result the caller gets.
PersistentRead ==
    /\ Built
    /\ \E outs \in [1 .. (MaxRetry + 1) -> BOOLEAN] :
          LET first == Attempt(count, outs[1])
              r == IF first.ok
                   THEN [tried |-> <<first>>, count |-> SlaveCount(count),
                         ok |-> TRUE, from |-> 1]
                   ELSE Retry(0, SlaveCount(count), <<first>>, outs)
          IN /\ tried' = r.tried
             /\ count' = r.count
             /\ err' = ~r.ok
             /\ ret' = r.tried[r.from].db
    /\ op' = "Persistent"
    /\ pings' = <<>>
    /\ UNCHANGED <<N, activedb, inactivedb, length, stats, up, hist, sources,
                   openPc, openI, opened, maxRetry, hbVars>>

\* Exec, NamedExec, Begin (sqlt.go 318-321, 367-375): one call on the master
ExecOnce ==
    /\ Built
    /\ \E ok \in BOOLEAN :
          /\ tried' = <<[db |-> Master, ok |-> ok]>>
          /\ err' = ~ok
    /\ ret' = Master
    /\ op' = "Exec"
    /\ pings' = <<>>
    /\ UNCHANGED <<N, activedb, inactivedb, length, count, stats, up, hist,
                   sources, openPc, openI, opened, maxRetry, hbVars>>

OpenNext ==
    \/ OpenCall
    \/ OpenHandle
    \/ OpenPing
    \/ OpenOther
    \/ SetMaxRetry
    \/ PersistentRead
    \/ ExecOnce

OpenSpec == OpenInit /\ [][OpenNext]_vars

----------------------------------------------------------------------------
(* Two Ping calls at once and slave(), statement by statement (sqlt.go       *)
(* 1000-1059, 1357-1367).  Ping takes no lock around its loops; only         *)
(* db.length-- and db.length++ run under dbLengthMutex, which slave() holds  *)
(* from its first to its last statement.  pass[p] holds the locals i, val    *)
(* and err of call p and the statement it is at; the calls are ticks of the  *)
(* heartbeat goroutine (sqlt.go 980) or direct calls.  Whether a ping        *)
(* succeeds is an input of the step that issues it.                          *)

\* what slave() returns when db.activedb[slave] is out of range: the caller
\* gets a runtime panic instead of an index
Panic == 0 - 2

\* what the statements of a pass leave alone
passRest == <<N, count, heartBeat, beating, stopBlocked, lastBeat, up, hist,
              stopBeat, gor, cpc, closed, ctxPc, ctxDepth, sources, openPc,
              openI, opened, maxRetry, tried>>

\* no Ping call has died in a slice expression out of range
Running == \A p \in PassIds : pass[p].pc # "panic"

SetPass(p, pc, i, val, e) ==
    pass' = [pass EXCEPT ![p] = [pc |-> pc, i |-> i, val |-> val, err |-> e]]

\* the call returns e
PassReturn(p, e) ==
    /\ pass' = [pass EXCEPT ![p] = [IdlePass EXCEPT !.pc = "returned"]]
    /\ op' = "Ping" /\ ret' = NoRet /\ err' = e /\ pings' = <<>>

\* the slice expression s[i+1:] panics
PassPanic(p) ==
    /\ pass' = [pass EXCEPT ![p] = [IdlePass EXCEPT !.pc = "panic"]]
    /\ Quiet

\* entry of Ping with the flag set (line 1003), i := 0 (line 1013)
PassStart(p) ==
    /\ Running
    /\ heartBeat
    /\ pass[p].pc = "idle"
    /\ SetPass(p, "aRead", 0, 0, FALSE)
    /\ Quiet
    /\ UNCHANGED <<activedb, inactivedb, length, stats, passRest>>

\* i < len(db.activedb); val := db.activedb[i] (lines 1013-1014)
ARead(p) ==
    LET q == pass[p]
    IN /\ Running
       /\ q.pc = "aRead"
       /\ IF q.i < Len(activedb)
          THEN SetPass(p, "aPing", q.i, activedb[q.i + 1], q.err)
          ELSE SetPass(p, "iRead", 0, q.val, q.err)
       /\ Quiet
       /\ UNCHANGED <<activedb, inactivedb, length, stats, passRest>>

\* err = db.sqlxdb[val].Ping(), the guard of the last active connection and
\* the writes to db.stats[val] (lines 1015-1022, 1027, 1031-1036)
APing(p) ==
    LET q == pass[p]
    IN /\ Running
       /\ q.pc = "aPing"
       /\ \E ok \in BOOLEAN :
          IF ok
          THEN /\ stats' = [stats EXCEPT
                               ![q.val] = [Connected |-> TRUE, Error |-> FALSE]]
               /\ SetPass(p, "aRead", q.i + 1, q.val, FALSE)
               /\ Quiet
          ELSE IF SoleActive(length)
               THEN /\ PassReturn(p, TRUE)
                    /\ UNCHANGED stats
               ELSE /\ stats' = [stats EXCEPT
                                   ![q.val] = [Connected |-> FALSE, Error |-> TRUE]]
                    /\ SetPass(p, "aCut", q.i, q.val, TRUE)
                    /\ Quiet
       /\ UNCHANGED <<activedb, inactivedb, length, passRest>>

\* db.activedb = append(db.activedb[:i], db.activedb[i+1:]...); i--;
\* db.inactivedb = append(db.inactivedb, val) (lines 1024-1026)
ACut(p) ==
    LET q == pass[p]
    IN /\ Running
       /\ q.pc = "aCut"
       /\ IF q.i + 1 > Len(activedb)
          THEN /\ PassPanic(p)
               /\ UNCHANGED <<activedb, inactivedb>>
          ELSE /\ activedb' = RemoveAt(activedb, q.i)
               /\ inactivedb' = Append(inactivedb, q.val)
               /\ SetPass(p, "aLen", q.i - 1, q.val, q.err)
               /\ Quiet
       /\ UNCHANGED <<length, stats, passRest>>

\* db.length-- under the mutex, then i++ (lines 1028-1030, 1013)
ALen(p) ==
    LET q == pass[p]
    IN /\ Running
       /\ q.pc = "aLen"
       /\ length' = length - 1
       /\ SetPass(p, "aRead", q.i + 1, q.val, q.err)
       /\ Quiet
       /\ UNCHANGED <<activedb, inactivedb, stats, passRest>>

\* i < len(db.inactivedb); val := db.inactivedb[i] (lines 1039-1040), or
\* return err (line 1058)
IRead(p) ==
    LET q == pass[p]
    IN /\ Running
       /\ q.pc = "iRead"
       /\ IF q.i < Len(inactivedb)
          THEN /\ SetPass(p, "iPing", q.i, inactivedb[q.i + 1], q.err)
               /\ Quiet
          ELSE PassReturn(p, q.err)
       /\ UNCHANGED <<activedb, inactivedb, length, stats, passRest>>

\* err = db.sqlxdb[val].Ping() and the writes to db.stats[val]
\* (lines 1041-1047, 1052-1053)
IPing(p) ==
    LET q == pass[p]
    IN /\ Running
       /\ q.pc = "iPing"
       /\ \E ok \in BOOLEAN :
          IF ok
          THEN /\ stats' = [stats EXCEPT
                               ![q.val] = [Connected |-> TRUE, Error |-> FALSE]]
               /\ SetPass(p, "iCut", q.i, q.val, FALSE)
          ELSE /\ stats' = [stats EXCEPT
                               ![q.val] = [Connected |-> FALSE, Error |-> TRUE]]
               /\ SetPass(p, "iRead", q.i + 1, q.val, TRUE)
       /\ Quiet
       /\ UNCHANGED <<activedb, inactivedb, length, passRest>>

\* db.inactivedb = append(db.inactivedb[:i], db.inactivedb[i+1:]...); i--;
\* db.activedb = append(db.activedb, val) (lines 1048-1051)
ICut(p) ==
    LET q == pass[p]
    IN /\ Running
       /\ q.pc = "iCut"
       /\ IF q.i + 1 > Len(inactivedb)
          THEN /\ PassPanic(p)
               /\ UNCHANGED <<activedb, inactivedb>>
          ELSE /\ inactivedb' = RemoveAt(inactivedb, q.i)
               /\ activedb' = Append(activedb, q.val)
               /\ SetPass(p, "iLen", q.i - 1, q.val, q.err)
               /\ Quiet
       /\ UNCHANGED <<length, stats, passRest>>

\* db.length++ under the mutex, then i++ (lines 1054-1056, 1039)
ILen(p) ==
    LET q == pass[p]
    IN /\ Running
       /\ q.pc = "iLen"
       /\ length' = length + 1
       /\ SetPass(p, "iRead", q.i + 1, q.val, q.err)
       /\ Quiet
       /\ UNCHANGED <<activedb, inactivedb, stats, passRest>>

\* slave() between two statements of the passes (lines 1357-1367): it holds
\* the mutex, so db.length does not change under it, and reads db.activedb
\* once.  An index out of range panics in the caller, which unlocks the
\* mutex on the way out (defer).
SlaveCall ==
    /\ Running
    /\ count' = (IF length <= 1 THEN count ELSE NextCount(count))
    /\ ret' = IF length <= 1 THEN 0
              ELSE LET slave == 1 + (count' % (length - 1))
                   IN IF slave >= Len(activedb) THEN Panic
                      ELSE activedb[slave + 1]
    /\ op' = "slave"
    /\ err' = FALSE
    /\ pings' = <<>>
    /\ UNCHANGED <<N, activedb, inactivedb, length, stats, heartBeat,
                   beating, stopBlocked, lastBeat, up, hist, sideVars>>

OverlapNext ==
    \/ DoHeartBeat
    \/ SlaveCall
    \/ \E p \in PassIds :
          \/ PassStart(p)
          \/ ARead(p)
          \/ APing(p)
          \/ ACut(p)
          \/ ALen(p)
          \/ IRead(p)
          \/ IPing(p)
          \/ ICut(p)
          \/ ILen(p)

OverlapSpec == Init /\ [][OverlapNext]_vars

----------------------------------------------------------------------------
(* slave() with the counter at its width (sqlt.go 1357-1367): db.count is an *)
(* unsigned integer of Width bits that atomic.AddUint64 wraps to 0.  The DB  *)
(* has all its connections active and has served any number of reads.        *)

RECURSIVE Pow2(_)
Pow2(n) == IF n = 0 THEN 1 ELSE 2 * Pow2(n - 1)

\* atomic.AddUint64(&db.count, 1) on a counter of Width bits
NextCountWrap(c) == (c + 1) % Pow2(Width)

WrapInit ==
    /\ N \in 2 .. MaxL
    /\ activedb = [k \in 1 .. N |-> k - 1]
    /\ inactivedb = <<>>
    /\ length = N
    /\ count \in 0 .. (Pow2(Width) - 1)
    /\ stats = [i \in 0 .. (N - 1) |-> [Connected |-> TRUE, Error |-> FALSE]]
    /\ heartBeat = FALSE
    /\ beating = FALSE
    /\ stopBlocked = FALSE
    /\ lastBeat = 0
    /\ up = 0 .. (N - 1)
    /\ op = "none"
    /\ ret = NoRet
    /\ err = FALSE
    /\ pings = <<>>
    /\ hist = <<>>
    /\ stopBeat = 0
    /\ gor = <<>>
    /\ cpc = [c \in Callers |-> [pc |-> "idle", ch |-> 0]]
    /\ closed = FALSE
    /\ ctxPc = "idle"
    /\ ctxDepth = 0
    /\ sources = [k \in 1 .. (2 * N - 1) |-> IF k % 2 = 1 THEN "a" ELSE ";"]
    /\ openPc = "idle"
    /\ openI = N
    /\ opened = 0 .. (N - 1)
    /\ maxRetry = 1
    /\ tried = <<>>
    /\ pass = [p \in PassIds |-> IdlePass]

\* a read: slave() with the counter wrapping; hist keeps the last
\* length - 1 selections
WrapRead ==
    /\ count' = (IF length <= 1 THEN count ELSE NextCountWrap(count))
    /\ ret' = SlaveIndex(activedb, length, count')
    /\ hist' = KeepLast(Append(hist, ret'), length - 1)
    /\ op' = "slave"
    /\ err' = FALSE
    /\ pings' = <<>>
    /\ UNCHANGED <<N, activedb, inactivedb, length, stats, heartBeat,
                   beating, stopBlocked, lastBeat, up, sideVars>>

WrapNext == WrapRead

WrapSpec == WrapInit /\ [][WrapNext]_vars

----------------------------------------------------------------------------
(* The Ping that ranges over the slices it shortens (sqlt_context.go         *)
(* 448-486).  for i, val := range db.activedb evaluates db.activedb once: i  *)
(* runs over the length the slice had at the start of the loop and val is    *)
(* read from the backing array, which append(s[:i], s[i+1:]...) shifts in    *)
(* place.  arr is that backing array, n the length at the start.  This Ping  *)
(* has no guard for the last active connection and no heartbeat flag.        *)

\* the part of DB a pass works on, the local err and the ping log; panic
\* tells that a slice expression was out of range
RangeState == [activedb |-> activedb, inactivedb |-> inactivedb,
               length |-> length, stats |-> stats,
               err |-> FALSE, pings |-> <<>>, panic |-> FALSE]

\* the backing array after append(s[:i], s[i+1:]...): the elements behind
\* position i move down by one, the old last element stays where it was
ShiftedArray(arr, s, i) == RemoveAt(s, i) \o SubSeq(arr, Len(s), Len(arr))

\* for i, val := range db.activedb { ... } (sqlt_context.go 451-466)
RECURSIVE RangeActive(_, _, _, _)
RangeActive(i, s, arr, ok) ==
    IF i >= Len(arr) THEN s
    ELSE LET val == arr[i + 1]
             p   == LogPing(s, val, val \in ok, "active")
         IN IF val \notin ok
            THEN IF i + 1 > Len(p.activedb)
                 THEN [p EXCEPT !.panic = TRUE,
                                !.stats[val] = [Connected |-> FALSE,
                                                Error |-> p.stats[val].Error]]
                 ELSE RangeActive(i + 1, Demote(p, i, val),
                                  ShiftedArray(arr, p.activedb, i), ok)
            ELSE RangeActive(i + 1, MarkAlive(p, val), arr, ok)

\* for i, val := range db.inactivedb { ... } (sqlt_context.go 468-483)
RECURSIVE RangeInactive(_, _, _, _)
RangeInactive(i, s, arr, ok) ==
    IF i >= Len(arr) THEN s
    ELSE LET val == arr[i + 1]
             p   == LogPing(s, val, val \in ok, "inactive")
         IN IF val \notin ok
            THEN RangeInactive(i + 1, MarkDown(p, val), arr, ok)
            ELSE IF i + 1 > Len(p.inactivedb)
                 THEN [p EXCEPT !.panic = TRUE,
                                !.stats[val] = [Connected |-> TRUE,
                                                Error |-> p.stats[val].Error]]
                 ELSE RangeInactive(i + 1, Promote(p, i, val),
                                    ShiftedArray(arr, p.inactivedb, i), ok)

\* one call: okA are the connections that answer during the first loop,
\* okI those that answer during the second
RangePass(s, okA, okI) ==
    LET a == RangeActive(0, s, s.activedb, okA)
    IN IF a.panic THEN a ELSE RangeInactive(0, a, a.inactivedb, okI)

\* db.Ping() (sqlt_context.go 448-486); ret is Panic when the call dies in
\* a slice expression, and nothing runs after that
RangePing ==
    /\ ret # Panic
    /\ \E okA \in SUBSET Conns, okI \in SUBSET Conns :
          LET r == RangePass(RangeState, okA, okI)
          IN /\ ApplyPing(r)
             /\ err' = r.err
             /\ ret' = (IF r.panic THEN Panic ELSE NoRet)
             /\ up' = okI
    /\ op' = "Ping"
    /\ UNCHANGED <<N, count, heartBeat, beating, stopBlocked, lastBeat,
                   sideVars>>

RangeNext == RangePing

RangeSpec == Init /\ [][RangeNext]_vars

----------------------------------------------------------------------------
(* Properties *)

Replicas == 1 .. (MaxN - 1)

ActiveSet == Range(activedb)
InactiveSet == Range(inactivedb)

\* the last operation was a Ping that took the partition-updating path
ProbePassDone == op = "Ping" /\ heartBeat

\* C1: after any sequence of Ping passes, with any ping outcomes, activedb
\* and inactivedb are disjoint and together hold exactly 0..N-1.
PartitionInvariant ==
    /\ ActiveSet \cap InactiveSet = {}
    /\ ActiveSet \cup InactiveSet = Conns

\* C1 witness: a pass has run that left a connection inactive and the master
\* somewhere else than at the head of activedb.
PartitionWitness ==
    /\ ProbePassDone
    /\ inactivedb # <<>>
    /\ Len(activedb) >= 2
    /\ activedb[1] # 0

\* C2: activedb is never empty and db.length never drops below 1; a pass in
\* which every ping fails ends with the connection pinged last as the only
\* active one.
NoEmptyActive ==
    /\ Len(activedb) >= 1
    /\ length >= 1
    /\ (ProbePassDone /\ pings # <<>> /\ \A k \in 1 .. Len(pings) : ~pings[k].ok)
          => activedb = <<pings[Len(pings)].db>>

\* C2 witness: a pass over MaxN connections in which every ping failed.
NoEmptyActiveWitness ==
    /\ ProbePassDone
    /\ N = MaxN
    /\ Len(pings) = N
    /\ \A k \in 1 .. Len(pings) : ~pings[k].ok
    /\ Len(activedb) = 1

\* C3 (as claimed): the index slave() returns is never in inactivedb.
ReadExcludesInactive == (op = "slave") => (ret \notin InactiveSet)

\* C4: a write-path or primary-affinity operation uses index 0 whatever the
\* partition is, and leaves activedb, inactivedb, length and count alone.
MasterRouting ==
    [][(op' = "master") =>
         (ret' = 0 /\ UNCHANGED <<activedb, inactivedb, length, count>>)]_vars

\* C4 witness: a master operation ran while the master was in inactivedb.
MasterRoutingWitness == op = "master" /\ ret = 0 /\ 0 \in InactiveSet

\* C5: slave() returns activedb[1 + (c mod (L-1))] for the incremented
\* counter c, and while activedb is unchanged with L > 1 and the master at
\* its head, any L-1 consecutive results are activedb[1..L-1], each once.
RoundRobinCoverage ==
    /\ (op = "slave" /\ length > 1)
          => ret = activedb[(1 + (count % (length - 1))) + 1]
    /\ (length > 1 /\ activedb[1] = 0 /\ Len(hist) >= length - 1)
          => Range(KeepLast(hist, length - 1))
                = {activedb[k] : k \in 2 .. length}

\* C5 witness: two consecutive selections over the reordered list [0,2,1].
RoundRobinWitness ==
    /\ op = "slave"
    /\ activedb = <<0, 2, 1>>
    /\ length = 3
    /\ Len(hist) = 2

ReadsGoToSlaves ==
    (op = "slave") => ((ret = 0) <=> (\A r \in ActiveSet : r = 0))

\* C8 (as claimed): while the heartbeat runs, a connection that answers its
\* pings from some point on ends up in activedb for good.
AutomaticRecovery ==
    \A r \in 0 .. (MaxN - 1) :
        (<>[](beating /\ r \in up)) => <>[](r \in ActiveSet)

\* C9 (as claimed): once the partition no longer changes, every replica that
\* stays active is selected again and again.
NoReplicaStarved ==
    \A r \in Replicas :
        (<>[](r \in ActiveSet /\ r \notin InactiveSet) /\ <>[][activedb' = activedb]_vars)
            => []<>(op = "slave" /\ ret = r)

\* the connections whose ping failed / succeeded in a phase of the pass
\* that takes the step
FailedIn(phase) ==
    {pings'[k].db : k \in {j \in 1 .. Len(pings') :
                             pings'[j].phase = phase /\ ~pings'[j].ok}}
AnsweredIn(phase) ==
    {pings'[k].db : k \in {j \in 1 .. Len(pings') :
                             pings'[j].phase = phase /\ pings'[j].ok}}
Without(s, r) == SelectSeq(s, LAMBDA x : x # r)

\* the step is a pass in which the active replica r is the only active
\* connection to fail, keeps failing, and nothing is promoted
DemotionCase(r) ==
    /\ op' = "Ping" /\ heartBeat
    /\ r \in ActiveSet /\ r > 0
    /\ FailedIn("active") = {r}
    /\ AnsweredIn("inactive") = {}

DemotionEffect(r) ==
    /\ activedb' = Without(activedb, r)
    /\ inactivedb' = Append(inactivedb, r)
    /\ length' = length - 1
    /\ stats'[r] = [Connected |-> FALSE, Error |-> TRUE]

\* the step is a pass in which no active connection fails and the inactive
\* r is the only connection to be promoted
PromotionCase(r) ==
    /\ op' = "Ping" /\ heartBeat
    /\ r \in InactiveSet
    /\ FailedIn("active") = {}
    /\ AnsweredIn("inactive") = {r}

PromotionEffect(r) ==
    /\ inactivedb' = Without(inactivedb, r)
    /\ activedb' = Append(activedb, r)
    /\ length' = length + 1
    /\ stats'[r] = [Connected |-> TRUE, Error |-> FALSE]

\* C10 (as claimed): the failing active replica is always demoted.
DemotionPromotionAsClaimed ==
    [][\A r \in Conns :
          /\ DemotionCase(r) => DemotionEffect(r)
          /\ PromotionCase(r) => PromotionEffect(r)]_vars

\* C10 (amended): a pass in which exactly one active replica r fails, while
\* at least two connections are active, removes r from activedb keeping the
\* order of the others, appends r to inactivedb, decrements length and marks
\* stats[r] not connected with an error; a pass in which the inactive r
\* answers removes it from inactivedb, appends it to activedb and increments
\* length.
DemotionPromotionOrder ==
    [][\A r \in Conns :
          /\ (DemotionCase(r) /\ length > 1) => DemotionEffect(r)
          /\ PromotionCase(r) => PromotionEffect(r)]_vars

\* C10 witness: [0,1,2] -> [0,2]/[1] -> [0,2,1]/[]: slave 1 has just been
\* promoted to the tail.
DemotionPromotionWitness ==
    /\ ProbePassDone
    /\ activedb = <<0, 2, 1>>
    /\ inactivedb = <<>>
    /\ length = 3
    /\ pings = <<[db |-> 0, ok |-> TRUE, phase |-> "active"],
                 [db |-> 2, ok |-> TRUE, phase |-> "active"],
                 [db |-> 1, ok |-> TRUE, phase |-> "inactive"]>>

\* C11: with a single configured connection whose ping fails, Ping returns
\* the ping error, and activedb = [0], inactivedb = [] and length = 1 hold
\* after any number of passes, with the heartbeat flag set or not.
SoleConnectionFailure ==
    (N = 1) =>
        /\ activedb = <<0>> /\ inactivedb = <<>> /\ length = 1
        /\ (op = "Ping" /\ pings # <<>> /\ ~pings[Len(pings)].ok) => err

\* C11 witness: a partition-updating pass of a single-connection DB has
\* failed, and it was not the first pass of the heartbeat.
SoleConnectionWitness ==
    /\ N = 1 /\ ProbePassDone
    /\ pings = <<[db |-> 0, ok |-> FALSE, phase |-> "active"]>>
    /\ err
    /\ lastBeat = 2

\* C12 (as claimed): a partition-updating pass returns no error only if
\* every ping of the pass succeeded.
ProbeReturnsAnyFailure ==
    ProbePassDone =>
        (err <=> (\E k \in 1 .. Len(pings) : ~pings[k].ok))

StopReturns == \E c \in Callers : At(c, "sbSend") /\ cpc'[c].pc = "idle"

\* C14: the return of StopBeat coincides with the return of the goroutine
\* that received the signal; a goroutine that has returned stays so; and
\* once every spawned goroutine has returned, lastBeat, the status records
\* and the partition are never written again, whatever the interleaving of
\* ticks, passes in flight and stop calls.
StopIsEffective ==
    [][/\ StopReturns =>
             \E g \in DOMAIN gor : gor[g].pc = "select" /\ gor'[g].pc = "done"
       /\ \A g \in DOMAIN gor : gor[g].pc = "done" => gor'[g].pc = "done"
       /\ (gor # <<>> /\ Live(gor) = {}) =>
             UNCHANGED <<lastBeat, stats, activedb, inactivedb, length>>]_vars

\* C14 witness: StopBeat has returned after the single goroutine had run
\* passes, one of them on closed handles.
StopIsEffectiveWitness ==
    /\ op = "StopBeat" /\ ret = 1
    /\ Len(gor) = 1 /\ gor[1].pc = "done"
    /\ lastBeat # 0
    /\ inactivedb # <<>>

\* C15 (as claimed): however DoHeartBeat calls interleave, at most one
\* goroutine is spawned and it listens on the channel in db.stopBeat.
RaceFreeStart ==
    /\ Len(gor) <= 1
    /\ \A g \in DOMAIN gor : gor[g].pc = "select" => gor[g].ch = stopBeat

\* C16 (as claimed): when StopBeat returns after stopping the goroutine,
\* db.heartBeat is false.
StopMarksStopped == (op = "StopBeat" /\ ret = 1) => ~heartBeat

\* C17 (as claimed): no StopBeat call is parked on its send while no
\* goroutine is running.
StopNeverDeadlocks == ~(stopBlocked /\ Live(gor) = {})

\* C18 (as claimed): when GetStatus returns while no goroutine is running,
\* every connection that is down, another one being active, is reported
\* not connected and with an error.
StatusNeverStale ==
    (op = "GetStatus" /\ Live(gor) = {}) =>
        \A c \in Conns \ up :
            (ActiveSet \ {c} # {}) => (~stats[c].Connected /\ stats[c].Error)

\* C19 (as claimed): every OpenWithContext and every PingContext call
\* returns.
ContextProbeTerminates == InPingContext ~> (ctxPc = "idle")

\* C20 (as claimed): once Close has returned, the heartbeat goroutine runs
\* no further pass: lastBeat and the status records stay as they are.
CloseStopsHeartbeat ==
    [][closed => (lastBeat' = lastBeat /\ stats' = stats)]_vars

NoDup(s) == \A j, k \in 1 .. Len(s) : s[j] = s[k] => j = k

\* C24: when passes do not overlap, no index occurs twice in activedb and
\* none occurs twice in inactivedb.
NoDuplicates == NoDup(activedb) /\ NoDup(inactivedb)

\* C24 witness: a pass has promoted two connections behind the only active
\* one.
NoDuplicatesWitness ==
    /\ ProbePassDone
    /\ activedb = <<2, 0, 1>>
    /\ \E k \in 1 .. Len(pings) : pings[k].phase = "inactive" /\ pings[k].ok

\* C25 (as claimed): whenever more than one connection is active, the
\* first element of activedb is the master.
PrimaryAtHead == (Len(activedb) > 1) => (activedb[1] = 0)

\* C26: db.length equals len(db.activedb) after every pass, the passes not
\* overlapping.
LengthMatchesActive == length = Len(activedb)

\* C26 witness: a pass over MaxN connections has demoted two of them.
LengthMatchesWitness ==
    /\ ProbePassDone
    /\ N = MaxN
    /\ activedb = <<1>> /\ inactivedb = <<0, 2>>
    /\ length = 1

\* C29 (as claimed): a pass issues at most N pings and pings no connection
\* twice.
BoundedPings ==
    ProbePassDone =>
        /\ Len(pings) <= N
        /\ \A j, k \in 1 .. Len(pings) : pings[j].db = pings[k].db => j = k

\* C30 (as claimed): a partition-updating pass pings every configured
\* connection.
FullSweep == ProbePassDone => {pings[k].db : k \in 1 .. Len(pings)} = Conns

\* C21 (as claimed): Open with the empty sources string returns an error
\* and no DB, and opens no handle.
EmptySourcesRejected ==
    (op = "Open" /\ sources = <<>>) => (ret = 0 /\ err /\ opened = {})

\* C22 (as claimed): when openConnection returns no DB, no handle it opened
\* is left open.
NoDanglingHandles == (op = "Open" /\ ret = 0) => (opened = {})

\* C23 (as claimed): a Persistent* read makes at most 1 + maxRetry
\* attempts, one if the first succeeds, none after a successful one, and
\* reports success exactly if some attempt succeeded; a write-path operation
\* makes one attempt.
BoundedRetryAsClaimed ==
    /\ (op = "Persistent") =>
          /\ Len(tried) >= 1 /\ Len(tried) <= 1 + maxRetry
          /\ tried[1].ok => Len(tried) = 1
          /\ \A k \in 1 .. (Len(tried) - 1) : ~tried[k].ok
          /\ ~err <=> (\E k \in 1 .. Len(tried) : tried[k].ok)
    /\ (op = "Exec") => (Len(tried) = 1 /\ tried[1].db = 0)

\* the retries a read may make: maxRetry, none when it is negative
Retries == IF maxRetry > 0 THEN maxRetry ELSE 0

\* C23 (amended): a Persistent* read makes at least one and at most
\* 1 + max(maxRetry, 0) attempts, one if the first succeeds, none after a
\* successful one, and reports success exactly if some attempt succeeded; a
\* write-path operation makes one attempt, on the master.
BoundedRetry ==
    /\ (op = "Persistent") =>
          /\ Len(tried) >= 1 /\ Len(tried) <= 1 + Retries
          /\ tried[1].ok => Len(tried) = 1
          /\ \A k \in 1 .. (Len(tried) - 1) : ~tried[k].ok
          /\ ~err <=> (\E k \in 1 .. Len(tried) : tried[k].ok)
    /\ (op = "Exec") => (Len(tried) = 1 /\ tried[1].db = 0)

\* C23 witness: with maxRetry = 2 the first attempt and the first retry
\* failed and the second retry succeeded.
BoundedRetryWitness ==
    /\ op = "Persistent" /\ maxRetry = 2
    /\ Len(tried) = 3 /\ ~tried[1].ok /\ ~tried[2].ok /\ tried[3].ok
    /\ ~err

\* C27 (as claimed): whatever statement a Ping pass is at, a slave() call
\* does not index activedb out of range, and the index it takes from
\* activedb is a member of activedb.
SlaveSafeUnderProbe ==
    (op = "slave") =>
        /\ ret # Panic
        /\ (length > 1) => (ret \in Range(activedb))

\* C28 (as claimed): once the Ping calls that overlapped have returned,
\* activedb and inactivedb are disjoint, duplicate-free, cover 0..N-1 and
\* length = len(activedb).
OverlapKeepsPartition ==
    (\A p \in PassIds : pass[p].pc \in {"idle", "returned"}) =>
        /\ Range(activedb) \cap Range(inactivedb) = {}
        /\ NoDup(activedb) /\ NoDup(inactivedb)
        /\ Range(activedb) \cup Range(inactivedb) = Conns
        /\ length = Len(activedb)

\* the last ping of connection c in the pass just made failed
LastPingFailed(c) ==
    \E k \in 1 .. Len(pings) :
        /\ pings[k].db = c /\ ~pings[k].ok
        /\ \A j \in (k + 1) .. Len(pings) : pings[j].db # c

\* C31 (as claimed): after a partition-updating pass every connection whose
\* last ping of the pass failed has connected = false and a non-nil error
\* in its status record, the last active connection included.
FailedPingRecorded ==
    ProbePassDone =>
        \A c \in Conns :
            LastPingFailed(c) => (~stats[c].Connected /\ stats[c].Error)

\* C32 (as claimed): a DoHeartBeat call that follows a StopBeat which
\* stopped the goroutine spawns a new goroutine, so that one is running.
HeartbeatRestarts ==
    [][(op = "StopBeat" /\ ret = 1 /\ op' = "DoHeartBeat") =>
          (ret' = 1 /\ Live(gor') # {})]_vars

\* caller c is at the send of StopBeat, the one goroutine ever spawned is
\* running, and no other call of DoHeartBeat or StopBeat is under way
StopPending(c) ==
    /\ At(c, "sbSend")
    /\ Len(gor) = 1 /\ Live(gor) = {1} /\ stopBeat = 1
    /\ \A d \in Callers \ {c} : At(d, "idle")

\* another caller has entered StopBeat: the call of c is not the only one
OtherStop(c) ==
    \E d \in Callers \ {c} : At(d, "sbTest") \/ At(d, "sbSend")

\* C33: a StopBeat call made while the goroutine runs, a pass in flight or
\* not, returns and the goroutine has returned with it, as long as it stays
\* the only StopBeat call.
StopTerminates ==
    \A c \in Callers :
        StopPending(c) ~> ((At(c, "idle") /\ Live(gor) = {}) \/ OtherStop(c))

\* C33 witness: the only StopBeat call has returned, after two passes of
\* the goroutine on open handles; the goroutine has returned.
StopTerminatesWitness ==
    /\ op = "StopBeat" /\ ret = 1
    /\ gor = <<[pc |-> "done", ch |-> 1]>>
    /\ lastBeat = 2 /\ ~closed
    /\ \A c \in Callers : At(c, "idle")

\* C34: when a Ping call has returned, a connection's status record says
\* connected with no error exactly if the connection is in activedb, and
\* every connection in inactivedb is recorded not connected with an error.
StatusAgreesWithPartition ==
    (op = "Ping") =>
        /\ \A c \in Conns :
              (stats[c].Connected /\ ~stats[c].Error) <=> (c \in ActiveSet)
        /\ \A c \in InactiveSet : ~stats[c].Connected /\ stats[c].Error

\* C34 witness: a pass has demoted one connection, promoted another and
\* left a third one, whose ping failed again, inactive.
StatusAgreesWitness ==
    /\ ProbePassDone /\ N = MaxN
    /\ activedb = <<1, 0>> /\ inactivedb = <<2>>
    /\ \E k \in 1 .. Len(pings) :
          pings[k] = [db |-> 0, ok |-> TRUE, phase |-> "inactive"]
    /\ \E k \in 1 .. Len(pings) :
          pings[k] = [db |-> 2, ok |-> FALSE, phase |-> "inactive"]

Exhausted == \A k \in 1 .. Len(tried') : ~tried'[k].ok

\* the connection the k-th slave() call of the step selects
KthTarget(k) == SlaveIndex(activedb, length, (count + k) % CountMod)

\* C36 (as claimed): a Persistent* read whose attempts all fail returns the
\* error and result of its first attempt; the counter advances once per
\* attempt and the k-th attempt goes to the k-th next round-robin position.
RetryExhaustionAsClaimed ==
    [][(op' = "Persistent") =>
          /\ Exhausted => (err' /\ ret' = tried'[1].db)
          /\ count' = (count + Len(tried')) % CountMod
          /\ \A k \in 1 .. Len(tried') : tried'[k].db = KthTarget(k)]_vars

\* C36 (amended): as above, the counter advancing once per attempt when
\* more than one connection is active (db.length > 1); with db.length <= 1
\* every attempt goes to connection 0 and the counter stays as it is.
RetryExhaustion ==
    [][(op' = "Persistent") =>
          /\ Exhausted => (err' /\ ret' = tried'[1].db)
          /\ count' = (IF length > 1 THEN (count + Len(tried')) % CountMod
                       ELSE count)
          /\ \A k \in 1 .. Len(tried') :
                tried'[k].db = (IF length > 1 THEN KthTarget(k) ELSE 0)]_vars

\* C36 witness: with one retry both attempts failed, on two different
\* replicas, and the caller got the outcome of the first.
RetryExhaustionWitness ==
    /\ op = "Persistent" /\ err /\ maxRetry = 1
    /\ Len(tried) = 2 /\ ~tried[1].ok /\ ~tried[2].ok
    /\ tried[1].db # tried[2].db
    /\ ret = tried[1].db

\* C37: maxRetry is one variable for the whole process: only SetMaxRetry
\* and an openConnection call that gets past its loop, for this DB or for
\* another one, write it; such a call sets it to 1, and a Persistent* read
\* that follows it makes at most one retry.
RetryLimitReset ==
    [][/\ (op' \in {"Open", "OpenOther"} /\ ret' = 1) => (maxRetry' = 1)
       /\ (maxRetry' # maxRetry) =>
             (op' \in {"Open", "OpenOther", "SetMaxRetry"})
       /\ (op \in {"Open", "OpenOther"} /\ ret = 1 /\ op' = "Persistent") =>
             (Len(tried') <= 2)]_vars

\* C37 witness: a read of this DB made two retries under SetMaxRetry(2),
\* and an Open for another DB has since put maxRetry back to 1.
RetryLimitResetWitness ==
    /\ op = "OpenOther" /\ maxRetry = 1
    /\ Len(tried) = 3
    /\ Built

\* C38 (as claimed): with a counter of Width bits slave() returns one of
\* activedb[1..L-1] for every counter value, and any L-1 consecutive
\* selections visit each of them once, the windows that contain the wrap of
\* the counter to 0 included.
CoverageAcrossWrap ==
    /\ (op = "slave") => (ret \in {activedb[k] : k \in 2 .. length})
    /\ (Len(hist) >= length - 1) =>
          (Range(hist) = {activedb[k] : k \in 2 .. length})

\* C39 (as claimed): a pass of the Ping that ranges over the slices ends
\* without a slice expression out of range, pings each connection that was
\* active at its start once in its first loop, and leaves activedb and
\* inactivedb a duplicate-free partition of 0..N-1 with length =
\* len(activedb), whatever pings fail.
RangePingSafe ==
    [][(op' = "Ping") =>
          /\ ret' # Panic
          /\ \A c \in ActiveSet :
                Cardinality({k \in 1 .. Len(pings') :
                    pings'[k].db = c /\ pings'[k].phase = "active"}) = 1
          /\ Range(activedb') \cap Range(inactivedb') = {}
          /\ Range(activedb') \cup Range(inactivedb') = Conns
          /\ NoDup(activedb') /\ NoDup(inactivedb')
          /\ length' = Len(activedb')]_vars

====
